---- MODULE Spec2Model ----
(***************************************************************************)
(* Model of the k3s cluster provisioning program (src/__main__.py).        *)
(*                                                                         *)
(* The program declares a security group, one master instance and          *)
(* num_workers worker instances, renders each worker's user data from the  *)
(* master's private address (Output.apply), and writes ~/.ssh/config once  *)
(* every public address is known (Output.all(...).apply).                  *)
(*                                                                         *)
(* Text is modelled as a sequence of string atoms; the atom "\n" is the    *)
(* newline character, every other atom is a run of characters without a    *)
(* newline.  An f-string is the concatenation of its literal pieces and    *)
(* its formatted values.                                                   *)
(***************************************************************************)
EXTENDS Integers, Sequences, FiniteSets, TLC

\* ------------------------------------------------------------------ bounds
MaxWorkers == 2
MaxRuns == 2

\* --------------------------------------------------------------- constants
Unresolved == "<unresolved>"
NL == "\n"
Internet == "0.0.0.0/0"
ApiPort == 6443
VxlanPort == 8472

\* The inputs of a run: what config.get("k3s_token") and
\* config.get("public_subnet_cidr") yield (the program's defaults, or
\* configured values) and the addresses the provider hands out: instance k
\* gets the (k+1)-th address of priv and pub (k = 0 is the master).
Scenarios ==
  { [k3s_token |-> "super-secret-token", public_subnet_cidr |-> "10.0.2.0/24",
     priv |-> <<"10.0.2.9", "10.0.2.8", "10.0.2.7", "10.0.2.6", "10.0.2.5">>,
     pub  |-> <<"54.0.0.3", "54.0.0.1", "54.0.0.3", "54.0.0.2", "54.0.0.1">>],
    [k3s_token |-> "T", public_subnet_cidr |-> "10.0.1.0/24",
     priv |-> <<"10.0.1.5", "10.0.1.6", "10.0.1.7", "10.0.1.8", "10.0.1.9">>,
     pub  |-> <<"54.0.0.1", "54.0.0.2", "54.0.0.3", "54.0.0.4", "54.0.0.5">>] }

\* What ~/.ssh/config may hold before the first run.
PriorFiles ==
  { <<>>,
    <<"Host ", "old-box", NL, "  HostName ", "192.0.2.1", NL>> }

\* ------------------------------------------------------------ pure helpers
\* str(n) as used by the f-strings.
Str(n) ==
  CASE n = 0 -> "0" [] n = 1 -> "1" [] n = 2 -> "2" [] n = 3 -> "3"
    [] n = 4 -> "4" [] n = 5 -> "5" [] n = 6 -> "6" [] n = 7 -> "7"
    [] n = 8 -> "8" [] OTHER -> "9"

RECURSIVE Concat(_)
Concat(ss) == IF ss = <<>> THEN <<>> ELSE Head(ss) \o Concat(Tail(ss))

\* "\n".join(parts): parts is a sequence of texts.
RECURSIVE Join(_)
Join(parts) ==
  IF parts = <<>> THEN <<>>
  ELSE IF Len(parts) = 1 THEN parts[1]
  ELSE parts[1] \o <<NL>> \o Join(Tail(parts))

\* The lines of a text: the runs of atoms between newline atoms.
RECURSIVE SplitLines(_, _)
SplitLines(text, cur) ==
  IF text = <<>> THEN <<cur>>
  ELSE IF Head(text) = NL THEN <<cur>> \o SplitLines(Tail(text), <<>>)
  ELSE SplitLines(Tail(text), Append(cur, Head(text)))

Lines(text) == SplitLines(text, <<>>)

\* -------------------------------------------------- the program's functions
\* ingress=[...] of k3s_security_group; cidr is public_subnet.cidr_block.
k3s_security_group_ingress_OpenApi(cidr) ==
  << [protocol |-> "tcp", from_port |-> 6443, to_port |-> 6443, cidr_blocks |-> {Internet}],
     [protocol |-> "udp", from_port |-> 8472, to_port |-> 8472, cidr_blocks |-> {cidr}],
     [protocol |-> "tcp", from_port |-> 22,   to_port |-> 22,   cidr_blocks |-> {Internet}],
     [protocol |-> "tcp", from_port |-> 80,   to_port |-> 80,   cidr_blocks |-> {Internet}],
     [protocol |-> "tcp", from_port |-> 443,  to_port |-> 443,  cidr_blocks |-> {cidr}],
     [protocol |-> "-1",  from_port |-> 0,    to_port |-> 0,    cidr_blocks |-> {cidr}] >>

k3s_security_group_ingress(cidr) ==
  << [protocol |-> "tcp", from_port |-> 6443, to_port |-> 6443, cidr_blocks |-> {cidr}],
     [protocol |-> "udp", from_port |-> 8472, to_port |-> 8472, cidr_blocks |-> {cidr}],
     [protocol |-> "tcp", from_port |-> 22,   to_port |-> 22,   cidr_blocks |-> {Internet}],
     [protocol |-> "tcp", from_port |-> 80,   to_port |-> 80,   cidr_blocks |-> {Internet}],
     [protocol |-> "tcp", from_port |-> 443,  to_port |-> 443,  cidr_blocks |-> {cidr}],
     [protocol |-> "-1",  from_port |-> 0,    to_port |-> 0,    cidr_blocks |-> {cidr}] >>

\* A rule admits (proto, port) when its protocol is proto or "-1" (every
\* protocol, every port) and, for a specific protocol, port is in its range.
Admits(rule, proto, port) ==
  \/ rule.protocol = "-1"
  \/ /\ rule.protocol = proto
     /\ rule.from_port <= port
     /\ port <= rule.to_port

make_worker_userdata_FixedIndex(token, ip, index) ==
  << "#!/bin/bash", NL,
     "    sudo apt update", NL,
     "    sudo hostnamectl set-hostname k3s-worker", Str(1), NL,
     "    # Install K3s agent", NL,
     "    curl -sfL https://get.k3s.io | K3S_TOKEN=\"", token,
     "\" K3S_URL=https://", ip, ":6443 sh -s -", NL,
     "    " >>

\* make_worker_userdata(ip, index); token is the module-level k3s_token.
make_worker_userdata(token, ip, index) ==
  << "#!/bin/bash", NL,
     "    sudo apt update", NL,
     "    sudo hostnamectl set-hostname k3s-worker", Str(index), NL,
     "    # Install K3s agent", NL,
     "    curl -sfL https://get.k3s.io | K3S_TOKEN=\"", token,
     "\" K3S_URL=https://", ip, ":6443 sh -s -", NL,
     "    " >>

BoundIndex_LateBinding(idx, cur) == cur

\* lambda ip, idx=i: ... -- the default argument binds the loop variable at
\* the time the lambda is made; cur is the module-level i when it runs.
BoundIndex(idx, cur) == idx

all_ips_MasterOnly(ws) == <<0>> \o [k \in 1..Len(ws) |-> 0]

\* all_ips = [master_instance.public_ip] + [worker.public_ip for ...]:
\* the instances whose public_ip is a member, in order (0 is the master).
all_ips(ws) == <<0>> \o ws

\* hosts = ["master"] + [f"worker-{i+1}" for i in range(len(workers))]
hosts(ws) == << <<"master">> >> \o [k \in 1..Len(ws) |-> <<"worker-", Str(k)>>]

\* The five config_lines.append calls of one loop iteration.
host_lines(host, ip) ==
  << <<"Host ">> \o host,
     <<"  HostName ", ip>>,
     <<"  User ubuntu">>,
     <<"  IdentityFile ~/.ssh/k3s-cluster.id_rsa", NL>>,
     <<>> >>

\* config_content of create_config_file(all_ips): ips is the resolved list.
create_config_file(ips, ws) ==
  Join(Concat([idx \in 1..Len(hosts(ws)) |-> host_lines(hosts(ws)[idx], ips[idx])]))

WriteFile_Append(old, content) == old \o content

\* open(config_path, "w") then write(config_content): the new file content.
WriteFile(old, content) == content

\* -------------------------------------------------------------------- state
VARIABLES
  cfg,          \* the configuration read at lines 6-12 and the provider's addresses
  num_workers,  \* num_workers
  run,          \* number of the current run of the program
  pc,           \* position of the program
  i,            \* the module-level loop variable i
  workers,      \* workers: the worker instances declared so far
  calls,        \* instance constructors called so far, in call order
  sg,           \* ingress rules of k3s_security_group, <<>> before it exists
  sgOf,         \* per instance: the rules behind vpc_security_group_ids
  state,        \* per instance: its lifecycle state
  priv,         \* per instance: private_ip, Unresolved until known
  pub,          \* per instance: public_ip, Unresolved until known
  lastPub,      \* the instance whose public_ip became known last, -1 if none
  userData,     \* per worker: worker_user_data, Unresolved until rendered
  registered,   \* workers whose private_ip.apply callback is registered
  pending,      \* registered callbacks that have not run yet
  regAfter,     \* workers whose callback was registered after resolution
  applyFires,   \* per worker: number of runs of its callback
  fanInReg,     \* Output.all(*all_ips).apply(...) has been called
  fanInFires,   \* number of runs of create_config_file
  fanInArgs,    \* the list create_config_file was last called with
  file,         \* content of ~/.ssh/config
  written,      \* the file was written in this run
  prior,        \* content of the file when this run began
  boot          \* position of the master's user_data script

progVars == <<pc, i, workers, calls, sg, sgOf>>
engineVars == <<state, priv, pub, lastPub>>
applyVars == <<userData, registered, pending, regAfter, applyFires>>
fanInVars == <<fanInReg, fanInFires, fanInArgs, file, written>>
runVars == <<cfg, num_workers, run, prior>>
vars == <<runVars, progVars, engineVars, applyVars, fanInVars, boot>>

Instances == 0..num_workers
Workers == 1..num_workers

Init ==
  /\ cfg \in Scenarios
  /\ num_workers \in 1..MaxWorkers
  /\ run = 1
  /\ pc = "secgrp"
  /\ i = 0
  /\ workers = <<>>
  /\ calls = <<>>
  /\ sg = <<>>
  /\ sgOf = [k \in Instances |-> <<>>]
  /\ state = [k \in Instances |-> "Undeclared"]
  /\ priv = [k \in Instances |-> Unresolved]
  /\ pub = [k \in Instances |-> Unresolved]
  /\ lastPub = -1
  /\ userData = [w \in Workers |-> <<Unresolved>>]
  /\ registered = {}
  /\ pending = {}
  /\ regAfter = {}
  /\ applyFires = [w \in Workers |-> 0]
  /\ fanInReg = FALSE
  /\ fanInFires = 0
  /\ fanInArgs = <<>>
  /\ file \in PriorFiles
  /\ written = FALSE
  /\ prior = file
  /\ boot = "off"

\* ------------------------------------------------------ deferred-value rules
\* The instance exists: the provider has created it.
Exists(k) == state[k] \in {"Created", "AddressesResolved"}

\* opts=pulumi.ResourceOptions(depends_on=[master_instance]) of a worker.
depends_on(k) == IF k = 0 THEN {} ELSE {0}

\* An instance's inputs are known: a worker's user_data is a deferred value.
InputsKnown(k) == IF k = 0 THEN TRUE ELSE userData[k] # <<Unresolved>>

CanCreate_Unordered(k) == state[k] = "Declared"

\* The engine may start creating instance k.
CanCreate(k) ==
  /\ state[k] = "Declared"
  /\ \A d \in depends_on(k) : Exists(d)
  /\ InputsKnown(k)

\* The values of a list of public_ip outputs under the assignment p.
Values(members, p) == [k \in 1..Len(members) |-> p[members[k]]]

\* Every member of Output.all(...) is known under the assignment p.
AllKnown(members, p) == \A k \in 1..Len(members) : p[members[k]] # Unresolved

\* Run the callbacks in ws with the resolved private address ip.
RunCallbacks(ws, ip) ==
  /\ userData' = [w \in Workers |->
        IF w \in ws
          THEN make_worker_userdata(cfg.k3s_token, ip, BoundIndex(w, i))
          ELSE userData[w]]
  /\ applyFires' = [w \in Workers |-> IF w \in ws THEN applyFires[w] + 1 ELSE applyFires[w]]

\* Run create_config_file on the member values under p, which are all known.
RunFanIn(p) ==
  /\ fanInFires' = fanInFires + 1
  /\ fanInArgs' = Values(all_ips(workers), p)
  /\ file' = WriteFile(file, create_config_file(Values(all_ips(workers), p), workers))
  /\ written' = TRUE

\* ------------------------------------------------------- the program's steps
\* Lines 15-121: the network and k3s_security_group.
DeclareSecurityGroup ==
  /\ pc = "secgrp"
  /\ sg' = k3s_security_group_ingress(cfg.public_subnet_cidr)
  /\ pc' = "master"
  /\ UNCHANGED <<i, workers, calls, sgOf>>
  /\ UNCHANGED <<runVars, engineVars, applyVars, fanInVars, boot>>

\* Lines 124-151: master_instance = aws.ec2.Instance("master-instance", ...).
DeclareMaster ==
  /\ pc = "master"
  /\ calls' = Append(calls, 0)
  /\ sgOf' = [sgOf EXCEPT ![0] = sg]
  /\ state' = [state EXCEPT ![0] = "Declared"]
  /\ i' = 1
  /\ pc' = "apply"
  /\ UNCHANGED <<workers, sg, priv, pub, lastPub>>
  /\ UNCHANGED <<runVars, applyVars, fanInVars, boot>>

\* Lines 168-170: worker_user_data = master_instance.private_ip.apply(...).
\* The callback runs at once when the address is already known.
ApplyWorker ==
  /\ pc = "apply"
  /\ registered' = registered \cup {i}
  /\ IF priv[0] # Unresolved
       THEN /\ RunCallbacks({i}, priv[0])
            /\ regAfter' = regAfter \cup {i}
            /\ UNCHANGED pending
       ELSE /\ pending' = pending \cup {i}
            /\ UNCHANGED <<userData, applyFires, regAfter>>
  /\ pc' = "worker"
  /\ UNCHANGED <<i, workers, calls, sg, sgOf>>
  /\ UNCHANGED <<runVars, engineVars, fanInVars, boot>>

\* Lines 172-188: worker = aws.ec2.Instance(f"worker{i}-instance", ...) and
\* workers.append(worker); then the next iteration of the for loop.
DeclareWorker ==
  /\ pc = "worker"
  /\ calls' = Append(calls, i)
  /\ sgOf' = [sgOf EXCEPT ![i] = sg]
  /\ state' = [state EXCEPT ![i] = "Declared"]
  /\ workers' = Append(workers, i)
  /\ IF i < num_workers
       THEN i' = i + 1 /\ pc' = "apply"
       ELSE i' = i /\ pc' = "export"
  /\ UNCHANGED <<sg, priv, pub, lastPub>>
  /\ UNCHANGED <<runVars, applyVars, fanInVars, boot>>

\* Lines 191-204: the exports; the enumerate loop leaves i at len(workers).
Export ==
  /\ pc = "export"
  /\ i' = Len(workers)
  /\ pc' = "all"
  /\ UNCHANGED <<workers, calls, sg, sgOf>>
  /\ UNCHANGED <<runVars, engineVars, applyVars, fanInVars, boot>>

\* Lines 226-229: pulumi.Output.all(*all_ips).apply(create_config_file).
RegisterFanIn ==
  /\ pc = "all"
  /\ fanInReg' = TRUE
  /\ IF AllKnown(all_ips(workers), pub)
       THEN RunFanIn(pub)
       ELSE UNCHANGED <<fanInFires, fanInArgs, file, written>>
  /\ pc' = "done"
  /\ UNCHANGED <<i, workers, calls, sg, sgOf>>
  /\ UNCHANGED <<runVars, engineVars, applyVars, boot>>

\* --------------------------------------------------- the provisioning engine
\* The engine starts creating a declared instance.
CreateStart(k) ==
  /\ CanCreate(k)
  /\ state' = [state EXCEPT ![k] = "Creating"]
  /\ UNCHANGED <<priv, pub, lastPub>>
  /\ UNCHANGED <<runVars, progVars, applyVars, fanInVars, boot>>

\* The provider created the instance; the master's first boot starts its
\* user_data script.
CreateDone(k) ==
  /\ state[k] = "Creating"
  /\ state' = [state EXCEPT ![k] = "Created"]
  /\ boot' = IF k = 0 /\ boot = "off" THEN "install" ELSE boot
  /\ UNCHANGED <<priv, pub, lastPub>>
  /\ UNCHANGED <<runVars, progVars, applyVars, fanInVars>>

\* The provider rejected the request: the instance's outputs stay unknown.
CreateFail(k) ==
  /\ state[k] = "Creating"
  /\ state' = [state EXCEPT ![k] = "Failed"]
  /\ UNCHANGED <<priv, pub, lastPub>>
  /\ UNCHANGED <<runVars, progVars, applyVars, fanInVars, boot>>

NextState(k, pv, pb) ==
  IF pv[k] # Unresolved /\ pb[k] # Unresolved THEN "AddressesResolved" ELSE state[k]

\* private_ip of instance k becomes known; the callbacks registered on the
\* master's private_ip run.
ResolvePrivate(k) ==
  /\ state[k] = "Created"
  /\ priv[k] = Unresolved
  /\ priv' = [priv EXCEPT ![k] = cfg.priv[k + 1]]
  /\ state' = [state EXCEPT ![k] = NextState(k, priv', pub)]
  /\ IF k = 0
       THEN /\ RunCallbacks(pending, priv'[0])
            /\ pending' = {}
            /\ UNCHANGED <<registered, regAfter>>
       ELSE UNCHANGED applyVars
  /\ UNCHANGED <<pub, lastPub>>
  /\ UNCHANGED <<runVars, progVars, fanInVars, boot>>

\* public_ip of instance k becomes known; create_config_file runs when this
\* was the last member of Output.all(*all_ips) to become known.
ResolvePublic(k) ==
  /\ state[k] = "Created"
  /\ pub[k] = Unresolved
  /\ pub' = [pub EXCEPT ![k] = cfg.pub[k + 1]]
  /\ lastPub' = k
  /\ state' = [state EXCEPT ![k] = NextState(k, priv, pub')]
  /\ IF /\ fanInReg
        /\ ~AllKnown(all_ips(workers), pub)
        /\ AllKnown(all_ips(workers), pub')
       THEN RunFanIn(pub') /\ UNCHANGED fanInReg
       ELSE UNCHANGED fanInVars
  /\ UNCHANGED priv
  /\ UNCHANGED <<runVars, progVars, applyVars, boot>>

\* ------------------------------------------- the master's user_data script
\* Lines 132-136: apt update, hostnamectl, install the K3s server.
BootInstall ==
  /\ boot = "install"
  /\ boot' = "until"
  /\ UNCHANGED <<runVars, progVars, engineVars, applyVars, fanInVars>>

\* Line 140: until /usr/local/bin/kubectl get nodes; ready is its outcome.
BootProbe(ready) ==
  /\ boot = "until"
  /\ boot' = IF ready THEN "chown" ELSE "sleep"
  /\ UNCHANGED <<runVars, progVars, engineVars, applyVars, fanInVars>>

\* Lines 141-143: echo, sleep 5, and back to the test of the loop.
BootSleep ==
  /\ boot = "sleep"
  /\ boot' = "until"
  /\ UNCHANGED <<runVars, progVars, engineVars, applyVars, fanInVars>>

\* Lines 145-146: chown and chmod of k3s.yaml; the script ends.
BootChown ==
  /\ boot = "chown"
  /\ boot' = "done"
  /\ UNCHANGED <<runVars, progVars, engineVars, applyVars, fanInVars>>

\* ---------------------------------------------------------------- next run
\* The run has finished and every instance is up.
RunOver ==
  /\ pc = "done"
  /\ \A k \in Instances : state[k] = "AddressesResolved"

\* The program is run again; the file and the booted master stay.
Rerun ==
  /\ RunOver
  /\ run < MaxRuns
  /\ run' = run + 1
  /\ prior' = file
  /\ pc' = "secgrp"
  /\ i' = 0
  /\ workers' = <<>>
  /\ calls' = <<>>
  /\ sg' = <<>>
  /\ sgOf' = [k \in Instances |-> <<>>]
  /\ state' = [k \in Instances |-> "Undeclared"]
  /\ priv' = [k \in Instances |-> Unresolved]
  /\ pub' = [k \in Instances |-> Unresolved]
  /\ lastPub' = -1
  /\ userData' = [w \in Workers |-> <<Unresolved>>]
  /\ registered' = {}
  /\ pending' = {}
  /\ regAfter' = {}
  /\ applyFires' = [w \in Workers |-> 0]
  /\ fanInReg' = FALSE
  /\ fanInFires' = 0
  /\ fanInArgs' = <<>>
  /\ written' = FALSE
  /\ UNCHANGED <<cfg, num_workers, file, boot>>

Program ==
  \/ DeclareSecurityGroup
  \/ DeclareMaster
  \/ ApplyWorker
  \/ DeclareWorker
  \/ Export
  \/ RegisterFanIn

Engine ==
  \E k \in Instances :
    \/ CreateStart(k)
    \/ CreateDone(k)
    \/ CreateFail(k)
    \/ ResolvePrivate(k)
    \/ ResolvePublic(k)

Boot ==
  \/ BootInstall
  \/ \E ready \in BOOLEAN : BootProbe(ready)
  \/ BootSleep
  \/ BootChown

Next == Program \/ Engine \/ Boot \/ Rerun

Spec == Init /\ [][Next]_vars

\* The event loop runs every enabled step eventually; whether the provider
\* fails a request and whether the API answers are not up to the scheduler.
FairSpec == Spec /\ WF_vars(Program) /\ WF_vars(Engine) /\ WF_vars(Boot)

\* ====================================================================== claims
Known(v) == v # Unresolved
Rendered(w) == userData[w] # <<Unresolved>>
Started(k) == state[k] \in {"Creating", "Created", "AddressesResolved", "Failed"}
Alias(k) == IF k = 0 THEN <<"master">> ELSE <<"worker-", Str(k)>>
IsKind(line, kw) == line # <<>> /\ line[1] = kw
HostIdx(L) == {j \in 1..Len(L) : IsKind(L[j], "Host ")}
\* Positions at which two texts of equal length differ.
Diff(a, b) == {p \in 1..Len(a) : a[p] # b[p]}

\* C1: no worker's constructor is called before the master's, and no worker
\* is being created (or has been) unless the master instance exists.
C1_WorkersAfterMaster ==
  /\ \A p \in 1..Len(calls) : calls[p] # 0 => \E q \in 1..(p - 1) : calls[q] = 0
  /\ \A w \in Workers : Started(w) => Exists(0)

C1_Witness ==
  /\ num_workers = 2
  /\ calls = <<0, 1, 2>>
  /\ state[1] = "Creating"
  /\ state[2] = "Creating"

\* C2: whatever order the public addresses became known in, the written file
\* has exactly num_workers + 1 Host lines, in the order master, worker-1, ...,
\* and the HostName line right after the k-th one carries the public address
\* of the k-th instance.
C2_FixedHostOrder ==
  written =>
    LET L == Lines(file) IN
      /\ Cardinality(HostIdx(L)) = num_workers + 1
      /\ Cardinality({j \in 1..Len(L) : IsKind(L[j], "  HostName ")}) = num_workers + 1
      /\ \A j \in HostIdx(L) :
           LET k == Cardinality({x \in HostIdx(L) : x < j}) IN
             /\ L[j] = <<"Host ">> \o Alias(k)
             /\ j + 1 <= Len(L)
             /\ L[j + 1] = <<"  HostName ", pub[k]>>

C2_Witness ==
  /\ written
  /\ num_workers = 2
  /\ lastPub = 0
  /\ pub[0] # pub[1]
  /\ pub[1] # pub[2]

\* Position of the atom kw in the text, 0 if it is not there.
Pos(text, kw) ==
  IF \E p \in 1..Len(text) : text[p] = kw
    THEN CHOOSE p \in 1..Len(text) : text[p] = kw
    ELSE 0

HostnameAtom == "    sudo hostnamectl set-hostname k3s-worker"
TokenAtom == "    curl -sfL https://get.k3s.io | K3S_TOKEN=\""
UrlAtom == "\" K3S_URL=https://"
PortAtom == ":6443 sh -s -"

\* C3: one payload per worker ordinal and no more; each carries the shared
\* token and https://<master private address>:6443, payload w carries the
\* hostname suffix w, and two payloads differ in that suffix only.
C3_WorkerPayloads ==
  /\ \A w \in Workers : applyFires[w] <= 1 /\ (Rendered(w) <=> applyFires[w] = 1)
  /\ (pc \in {"export", "all", "done"} /\ Known(priv[0])) =>
        Cardinality({w \in Workers : Rendered(w)}) = num_workers
  /\ \A w \in Workers : Rendered(w) =>
       LET u == userData[w] IN
         /\ Pos(u, TokenAtom) > 0
         /\ u[Pos(u, TokenAtom) + 1] = cfg.k3s_token
         /\ u[Pos(u, TokenAtom) + 2] = UrlAtom
         /\ u[Pos(u, TokenAtom) + 3] = priv[0]
         /\ u[Pos(u, TokenAtom) + 4] = PortAtom
         /\ Pos(u, HostnameAtom) > 0
         /\ u[Pos(u, HostnameAtom) + 1] = Str(w)
         /\ \A v \in Workers : (Rendered(v) /\ v # w) =>
              /\ Len(userData[v]) = Len(u)
              /\ Diff(u, userData[v]) = {Pos(u, HostnameAtom) + 1}

C3_Witness ==
  /\ num_workers = 2
  /\ cfg.k3s_token = "T"
  /\ priv[0] = "10.0.1.5"
  /\ Rendered(1)
  /\ Rendered(2)
  /\ written

\* C4: a failed instance's addresses stay unknown, nothing downstream of a
\* failed master's private address runs, and the file is written only when
\* every instance's public address is known; otherwise it is left as it was.
C4_NoPartialArtifact ==
  /\ \A k \in Instances : state[k] = "Failed" => ~Known(priv[k]) /\ ~Known(pub[k])
  /\ state[0] = "Failed" => \A w \in Workers : ~Rendered(w) /\ applyFires[w] = 0
  /\ (\E k \in Instances : state[k] = "Failed") => ~written /\ fanInFires = 0
  /\ written => \A k \in Instances : Known(pub[k])
  /\ ~written => file = prior

C4_Witness ==
  /\ num_workers = 2
  /\ pc = "done"
  /\ state[0] = "AddressesResolved"
  /\ state[1] = "AddressesResolved"
  /\ state[2] = "Failed"
  /\ ~written

\* C5: once the master's script is at its readiness loop, it leaves the loop.
C5_ReadinessPollBounded == (boot = "until") ~> (boot \notin {"until", "sleep"})

\* C6: after the write the file is exactly the rendering of the addresses
\* the callback was given, whatever the file held before; a second run with
\* the same addresses leaves the file as the first run left it.
C6_OverwriteInFull ==
  written =>
    /\ file = create_config_file(fanInArgs, workers)
    /\ Cardinality(HostIdx(Lines(file))) = num_workers + 1
    /\ (run > 1 /\ prior = create_config_file(fanInArgs, workers)) => file = prior

C6_Witness ==
  /\ written
  /\ run = 2
  /\ prior # <<>>
  /\ prior = create_config_file(fanInArgs, workers)

\* Number of blank lines between lines a and b of L.
Blanks(L, a, b) == Cardinality({j \in (a + 1)..(b - 1) : L[j] = <<>>})

\* C7: each entry has its four fields, and exactly one blank line separates
\* two consecutive entries.
C7_OneBlankLineBetweenEntries ==
  written =>
    LET L == Lines(file) IN
      \A a \in HostIdx(L) :
        /\ a + 3 <= Len(L)
        /\ IsKind(L[a + 1], "  HostName ")
        /\ L[a + 2] = <<"  User ubuntu">>
        /\ L[a + 3] = <<"  IdentityFile ~/.ssh/k3s-cluster.id_rsa">>
        /\ \A b \in HostIdx(L) :
             (a < b /\ ~\E c \in HostIdx(L) : a < c /\ c < b) => Blanks(L, a, b) = 1

\* C8: create_config_file runs at most once in a run, only when every
\* instance's public address is known, and it has run as soon as the fan-in
\* is registered and the last address is known.
C8_FanInOnce ==
  /\ fanInFires <= 1
  /\ fanInFires = 1 => fanInReg /\ \A k \in Instances : Known(pub[k])
  /\ (fanInReg /\ \A k \in Instances : Known(pub[k])) => fanInFires = 1
  /\ fanInFires = 1 => fanInArgs = [k \in 1..(num_workers + 1) |-> pub[k - 1]]

C8_Witness ==
  /\ fanInFires = 1
  /\ num_workers = 2
  /\ lastPub = 0
  /\ pc = "done"

\* C9: a callback on the master's private address has run exactly once as
\* soon as it is registered and the address is known, never before, and its
\* result is the same whether it was registered before or after the address
\* became known.
C9_TransformOnce ==
  \A w \in Workers :
    /\ applyFires[w] <= 1
    /\ applyFires[w] = 1 => w \in registered /\ Known(priv[0])
    /\ (w \in registered /\ Known(priv[0])) =>
          /\ applyFires[w] = 1
          /\ userData[w] = make_worker_userdata(cfg.k3s_token, priv[0], w)
    /\ w \in regAfter => w \in registered /\ w \notin pending

C9_Witness ==
  /\ num_workers = 2
  /\ 1 \notin regAfter
  /\ 2 \in regAfter
  /\ applyFires[1] = 1
  /\ applyFires[2] = 1

\* C10: in the rules attached to any instance, a rule that admits 6443/tcp
\* or 8472/udp has the subnet's range as its only source and never
\* 0.0.0.0/0; every declared instance carries the same k3s_security_group.
C10_ClusterPortsScoped ==
  \A k \in Instances :
    /\ state[k] # "Undeclared" => sgOf[k] = sg /\ sg # <<>>
    /\ \A r \in 1..Len(sgOf[k]) :
         (Admits(sgOf[k][r], "tcp", ApiPort) \/ Admits(sgOf[k][r], "udp", VxlanPort)) =>
            /\ sgOf[k][r].cidr_blocks = {cfg.public_subnet_cidr}
            /\ Internet \notin sgOf[k][r].cidr_blocks

C10_Witness ==
  /\ num_workers = 2
  /\ \A k \in Instances : state[k] # "Undeclared" /\ Len(sgOf[k]) = 6

====
